---------------------------- MODULE Spec2Model ----------------------------
(***************************************************************************)
(* A model of the in-memory TTL cache of package cache (memory.go): the    *)
(* key index (data), the expiry min-heap (expiryQueue, driven by           *)
(* container/heap through expiryHeap's Len/Less/Swap/Push/Pop), the        *)
(* cleanup timer (cleanupTick) and the background cleanup goroutine        *)
(* started by startCleanup.                                                *)
(*                                                                         *)
(* Every caller operation runs under memoryHelper.mutex from its first to  *)
(* its last statement, and so does cleanupExpired: each is one atomic      *)
(* action.  The goroutine's select statement is NOT under the mutex: its   *)
(* steps (evaluating m.cleanupTick.C on entering the select, receiving     *)
(* from that channel, receiving from stopChan) are separate actions that   *)
(* interleave with the callers.                                            *)
(*                                                                         *)
(* SpecLock alone takes the calls statement by statement, with Lock,    *)
(* RLock and the deferred Unlock as steps of their own.                    *)
(*                                                                         *)
(* Time is a discrete wall clock, now.  Heap positions are 0-based as in   *)
(* the source: position p of the heap is expiryQueue[p + 1].               *)
(***************************************************************************)
EXTENDS Integers, Sequences, FiniteSets, TLC

\* ------------------------------------------------------------- bounds
NumKeys == 2      \* keys the callers of Spec use
MaxTime == 2      \* the clock stops here
MaxTtl  == 2      \* longest duration a caller passes
MaxArgs == 2      \* most keys in one Del or Exists call

\* The idle period of resetCleanupTimer (1 * time.Hour), in clock ticks.
IdleTimeout == 2

Keys   == 1..NumKeys
Values == {"v1", "v2"}
\* time.Duration is signed: callers can pass negative and zero durations.
Ttls   == (0 - 1)..MaxTtl
KeySeqs == UNION {[1..n -> Keys] : n \in 1..MaxArgs}

\* A nil interface{} value: what GetVal returns for a miss.
NilVal == "nil"
\* A timer that is not there.
NoTimer == [deadline |-> 0, state |-> "none"]
\* SetVal takes any value: also an int (as in TestMemoryHelper_SetVal) and
\* nil.
IntVal == "123 (int)"
AnyValues == {"v1", IntVal, NilVal}

\* The dynamic type of v is string.
IsString(v) == v \in Values

\* memoryHelper.mutex held by nobody, and held for writing.
Unlocked == [writer |-> FALSE, readers |-> 0]
WriteLocked == [writer |-> TRUE, readers |-> 0]

\* The goroutines: the cleanup goroutine (0) and the callers.
NumCallers == 2
Callers == 1..NumCallers
Goroutines == 0..NumCallers

\* A goroutine outside of any call.
NoCall == [op |-> "none", pc |-> "none", key |-> 0, ttl |-> 0]

\* No result of a read operation.
NoRet == [op |-> "none", args |-> <<>>, val |-> 0]

VARIABLES
  now,          \* time.Now()
  items,        \* the reachable cacheItem objects, by name: key, value,
                \* expiration, index
  data,         \* memoryHelper.data: key -> name of its *cacheItem
  expiryQueue,  \* memoryHelper.expiryQueue: sequence of names of *cacheItem
  cleanupTick,  \* the time.Timer memoryHelper.cleanupTick points to
  stopClosed,   \* whether stopChan has been closed
  reaperPc,     \* position of the cleanup goroutine
  reaperTimer,  \* the timer whose channel the goroutine's select waits on:
                \* "current" (the one m.cleanupTick points to), "old" (one
                \* it pointed to when the select was entered, replaced
                \* since) or "none" (the goroutine is not in its select)
  oldTimer,     \* the time.Timer the goroutine waits on when it is "old"
  fault,        \* the run-time panic that ended the process ("none": none)
  ret,          \* the result of the last read operation
  callersDone,  \* the callers have returned from their last call
  mutex,        \* memoryHelper.mutex (a sync.RWMutex): whether it is held
                \* for writing, and the number of readers holding it
  calls,        \* per goroutine, the call it is in and its position in it
                \* (the specifications that take a call as one step leave
                \* every goroutine outside of a call)
  written       \* history: per key with an entry outstanding, the value
                \* and the instant now + ttl (due) that the last SetVal or
                \* Expire asked for.  Del and Close erase the record, and
                \* so does a cleanup that removes the entry at or after
                \* due.  Two specifications record more (see Track).

vars == <<now, items, data, expiryQueue, cleanupTick, stopClosed,
          reaperPc, reaperTimer, oldTimer, fault, ret, written, callersDone,
          mutex, calls>>

\* What the history records about how an entry came about (track):
\*   "none"     nothing: kind is "write";
\*   "renew"    an Expire that found the key before its expiration leaves
\*              kind "renewed" and origLeft, the time left until the
\*              expiration it replaced (-1: that instant has passed); an
\*              Expire that found it later leaves kind "revived";
\*   "replace"  a SetVal that found the key leaves kind "replaced" and
\*              shorter, whether the expiration it replaced was later
\*              than the new one;
\*   "call"     nothing more in written; ret holds the last call.
Write(v, due) ==
  [value |-> v, due |-> due, kind |-> "write", origLeft |-> 0,
   shorter |-> FALSE]

\* ------------------------------------------------- maps and objects
Range(f) == {f[x] : x \in DOMAIN f}

\* m[k] = v
Put(f, k, v) == [x \in DOMAIN f \cup {k} |-> IF x = k THEN v ELSE f[x]]

\* delete(m, k) for every k in S
Drop(f, S) == [x \in DOMAIN f \ S |-> f[x]]

\* Garbage collection: only the objects the map or the heap points to are
\* reachable.
Collect(it, d, q) == [x \in Range(q) \cup Range(d) |-> it[x]]

\* &cacheItem{...}: the name of a new object for key k, when the objects
\* in used are reachable: <<k, 0>>, or <<k, 1>>, ... when that name is taken.
NewItem(k, used) ==
  <<k, CHOOSE g \in 0..Cardinality(used) :
         /\ <<k, g>> \notin used
         /\ \A g1 \in 0..(g - 1) : <<k, g1>> \in used>>

\* ------------------------------------------------------- expiryHeap
\* A heap value: the backing array and the objects it points to (Swap, Push
\* and Pop write the index field of the items).
Heap(q, it) == [q |-> q, it |-> it]

\* expiryHeap.Len
HLen(h) == Len(h.q)

\* expiryHeap.Less: h[i].expiration.Before(h[j].expiration)
Less(h, i, j) == h.it[h.q[i + 1]].expiration < h.it[h.q[j + 1]].expiration

\* A Swap that leaves the index fields as they are.
SwapNoIndex(h, i, j) ==
  Heap([h.q EXCEPT ![i + 1] = h.q[j + 1], ![j + 1] = h.q[i + 1]], h.it)

\* expiryHeap.Swap: h[i], h[j] = h[j], h[i]; h[i].index = i; h[j].index = j
Swap(h, i, j) ==
  LET q1  == [h.q EXCEPT ![i + 1] = h.q[j + 1], ![j + 1] = h.q[i + 1]]
      it1 == [h.it EXCEPT ![q1[i + 1]].index = i]
      it2 == [it1 EXCEPT ![q1[j + 1]].index = j]
  IN  Heap(q1, it2)

\* expiryHeap.Push: item.index = len(*h); *h = append(*h, item)
HPush(h, x) ==
  Heap(Append(h.q, x), [h.it EXCEPT ![x].index = Len(h.q)])

\* expiryHeap.Pop: item = old[n-1]; item.index = -1; *h = old[0 : n-1]
HPop(h) ==
  LET n == Len(h.q)
      x == h.q[n]
  IN  Heap(SubSeq(h.q, 1, n - 1), [h.it EXCEPT ![x].index = 0 - 1])

\* container/heap.up(h, j)
RECURSIVE Up(_, _)
Up(h, j) ==
  LET i == (j - 1) \div 2   \* parent
  IN  IF j <= 0 \/ i = j \/ ~Less(h, j, i)
      THEN h
      ELSE Up(Swap(h, i, j), i)

\* container/heap.down(h, i0, n): the heap after sifting, and the final
\* position of the element (down reports i > i0).
RECURSIVE Down(_, _, _)
Down(h, i, n) ==
  LET j1 == 2 * i + 1
      j2 == j1 + 1
      j  == IF j2 < n /\ Less(h, j2, j1) THEN j2 ELSE j1
  IN  IF j1 >= n
      THEN [h |-> h, i |-> i]
      ELSE IF ~Less(h, j, i)
           THEN [h |-> h, i |-> i]
           ELSE Down(Swap(h, i, j), j, n)

\* container/heap.Push(h, x): h.Push(x); up(h, h.Len()-1)
HeapPush(h, x) ==
  LET h1 == HPush(h, x)
  IN  Up(h1, HLen(h1) - 1)

\* container/heap.Pop(h): n = h.Len()-1; h.Swap(0, n); down(h, 0, n); h.Pop()
HeapPop(h) ==
  LET n  == HLen(h) - 1
      h1 == Swap(h, 0, n)
  IN  HPop(Down(h1, 0, n).h)

\* A Remove that only sifts down.
HeapRemoveDownOnly(h, i) ==
  LET n  == HLen(h) - 1
      h1 == Swap(h, i, n)
  IN  IF n # i THEN HPop(Down(h1, i, n).h) ELSE HPop(h)

\* A Remove that drops the last element of the array.
HeapRemoveLast(h, i) == HPop(h)

\* container/heap.Remove(h, i): n = h.Len()-1;
\*   if n != i { h.Swap(i, n); if !down(h, i, n) { up(h, i) } }; h.Pop()
HeapRemove(h, i) ==
  LET n  == HLen(h) - 1
      h1 == Swap(h, i, n)
      d  == Down(h1, i, n)
      h2 == IF d.i > i THEN d.h ELSE Up(d.h, i)
  IN  IF n # i THEN HPop(h2) ELSE HPop(h)

\* An index heap.Remove accepts without an index-out-of-range panic in Swap.
ValidIndex(h, i) == 0 <= i /\ i < HLen(h)

\* ------------------------------------------------------------ timers
\* time.NewTimer(d) at time now
NewTimer(d) == [deadline |-> now + d, state |-> "armed"]

\* time.Timer.Stop: the timer never fires; the deadline of a stopped timer
\* is not observable any more.
StopTimer(t) == [deadline |-> 0, state |-> "stopped"]

\* The duration resetCleanupTimer arms for heap h at time now.
NextDelay(h) ==
  IF HLen(h) = 0
  THEN IdleTimeout
  ELSE LET nextExpiry == h.it[h.q[1]].expiration
       IN  IF nextExpiry < now THEN 0 ELSE nextExpiry - now

\* resetCleanupTimer: stop the timer m.cleanupTick points to and point
\* m.cleanupTick to a new one.  A goroutine that waits on the replaced
\* timer keeps waiting on it.
ResetCleanupTimer(h) ==
  [cleanupTick |-> NewTimer(NextDelay(h)),
   reaperTimer |-> IF reaperTimer = "current" THEN "old" ELSE reaperTimer,
   oldTimer    |-> IF reaperTimer = "current" THEN StopTimer(cleanupTick)
                   ELSE oldTimer]

\* No call of resetCleanupTimer.
KeepTimer ==
  [cleanupTick |-> cleanupTick, reaperTimer |-> reaperTimer,
   oldTimer |-> oldTimer]

\* ------------------------------------------------------------- reads
\* time.Now().After(item.expiration)
Expired(x) == now > items[x].expiration

\* GetVal(ctx, key): nil for a key not in the map or past its expiration.
GetVal(k) ==
  IF k \notin DOMAIN data THEN NilVal
  ELSE IF Expired(data[k]) THEN NilVal
  ELSE items[data[k]].value

\* An Exists that counts every key in the map.
RECURSIVE ExistsCountPresent(_)
ExistsCountPresent(ks) ==
  IF ks = <<>> THEN 0
  ELSE (IF Head(ks) \in DOMAIN data THEN 1 ELSE 0)
       + ExistsCountPresent(Tail(ks))

\* Exists(ctx, keys...): the loop over keys, counting.
RECURSIVE ExistsCount(_)
ExistsCount(ks) ==
  IF ks = <<>> THEN 0
  ELSE LET k == Head(ks)
       IN  (IF k \in DOMAIN data /\ ~Expired(data[k]) THEN 1 ELSE 0)
           + ExistsCount(Tail(ks))

\* GetAll(ctx): the CacheItem values built from the map, as a set (the
\* order of a map iteration is unspecified).
GetAll ==
  {[Key |-> items[data[k]].key, Value |-> items[data[k]].value,
    ExpiresAt |-> items[data[k]].expiration] :
     k \in {k1 \in DOMAIN data : ~Expired(data[k1])}}

\* The orders in which a range over the map can visit its keys.
MapOrders ==
  {s \in [1..Cardinality(DOMAIN data) -> DOMAIN data] :
     \A i, j \in DOMAIN s : s[i] = s[j] => i = j}

\* A GetAll loop that skips nothing.
RECURSIVE GetAllLoopNoSkip(_)
GetAllLoopNoSkip(order) ==
  IF order = <<>> THEN <<>>
  ELSE LET item == items[data[Head(order)]]
       IN  <<[Key |-> item.key, Value |-> item.value,
              ExpiresAt |-> item.expiration]>>
           \o GetAllLoopNoSkip(Tail(order))

\* GetAll(ctx): the loop over the map in the given order, appending a
\* CacheItem for every item that now is not after.
RECURSIVE GetAllLoop(_)
GetAllLoop(order) ==
  IF order = <<>> THEN <<>>
  ELSE LET item == items[data[Head(order)]]
       IN  (IF now > item.expiration
            THEN <<>>
            ELSE <<[Key |-> item.key, Value |-> item.value,
                    ExpiresAt |-> item.expiration]>>)
           \o GetAllLoop(Tail(order))

\* ------------------------------------------------------------- Init
\* NewMemoryHelper: empty map, nil heap, open stopChan; startCleanup has
\* armed the idle timer and started the goroutine, which has not yet
\* entered its select.
Init ==
  /\ now = 0
  /\ items = <<>>
  /\ data = <<>>
  /\ expiryQueue = <<>>
  /\ cleanupTick = [deadline |-> IdleTimeout, state |-> "armed"]
  /\ stopClosed = FALSE
  /\ reaperPc = "select"
  /\ reaperTimer = "none"
  /\ oldTimer = NoTimer
  /\ fault = "none"
  /\ ret = NoRet
  /\ written = <<>>
  /\ callersDone = FALSE
  /\ mutex = Unlocked
  /\ calls = [g \in Goroutines |-> NoCall]

\* The process is running: no panic has ended it.
Running == fault = "none"

\* The callers have calls left to make.
Calling == Running /\ ~callersDone

\* ----------------------------------------------------------- the clock
\* The wall clock advances.
Clock(track) ==
  /\ Running
  /\ now < MaxTime
  /\ now' = now + 1
  /\ written' = [k \in DOMAIN written |->
                   IF track = "renew" /\ written[k].kind = "renewed"
                      /\ written[k].origLeft >= 0
                   THEN [written[k] EXCEPT !.origLeft = @ - 1]
                   ELSE written[k]]
  /\ ret' = NoRet
  /\ UNCHANGED <<items, data, expiryQueue, cleanupTick, stopClosed,
                 reaperPc, reaperTimer, oldTimer, fault>>
  /\ UNCHANGED callersDone
  /\ UNCHANGED mutex
  /\ UNCHANGED calls

Tick == Clock("none")

\* ------------------------------------------------------ caller writes
\* A SetVal that pushes the new item without removing the old one.
SetValResultNoRemove(k, v, ttl) ==
  LET h1   == Heap(expiryQueue, items)
      item == NewItem(k, Range(h1.q) \cup Range(data))
      it2  == Put(h1.it, item,
                  [key |-> k, value |-> v, expiration |-> now + ttl,
                   index |-> 0])
      d2   == Put(data, k, item)
      h2   == HeapPush(Heap(h1.q, it2), item)
  IN  [data |-> d2, q |-> h2.q, items |-> Collect(h2.it, d2, h2.q),
       tm |-> KeepTimer]

\* A SetVal that keeps the later of the old and the new expiration.
SetValResultKeepLater(k, v, ttl) ==
  LET h0   == Heap(expiryQueue, items)
      h1   == IF k \in DOMAIN data
              THEN HeapRemove(h0, items[data[k]].index)
              ELSE h0
      exp  == IF k \in DOMAIN data /\ items[data[k]].expiration > now + ttl
              THEN items[data[k]].expiration
              ELSE now + ttl
      item == NewItem(k, Range(h1.q) \cup Range(Drop(data, {k})))
      it2  == Put(h1.it, item,
                  [key |-> k, value |-> v, expiration |-> exp, index |-> 0])
      d2   == Put(data, k, item)
      h2   == HeapPush(Heap(h1.q, it2), item)
  IN  [data |-> d2, q |-> h2.q, items |-> Collect(h2.it, d2, h2.q),
       tm |-> KeepTimer]

\* A SetVal that never calls resetCleanupTimer.
SetValResultNoReset(k, v, ttl) ==
  LET h0   == Heap(expiryQueue, items)
      h1   == IF k \in DOMAIN data
              THEN HeapRemove(h0, items[data[k]].index)
              ELSE h0
      item == NewItem(k, Range(h1.q) \cup Range(Drop(data, {k})))
      it2  == Put(h1.it, item,
                  [key |-> k, value |-> v, expiration |-> now + ttl,
                   index |-> 0])
      d2   == Put(data, k, item)
      h2   == HeapPush(Heap(h1.q, it2), item)
  IN  [data |-> d2, q |-> h2.q, items |-> Collect(h2.it, d2, h2.q),
       tm |-> KeepTimer]

\* SetVal(ctx, key, value, expiration): the state it leaves.
SetValResult(k, v, ttl) ==
  LET h0   == Heap(expiryQueue, items)
      h1   == IF k \in DOMAIN data
              THEN HeapRemove(h0, items[data[k]].index)
              ELSE h0
      item == NewItem(k, Range(h1.q) \cup Range(Drop(data, {k})))
      it2  == Put(h1.it, item,
                  [key |-> k, value |-> v, expiration |-> now + ttl,
                   index |-> 0])
      d2   == Put(data, k, item)
      h2   == HeapPush(Heap(h1.q, it2), item)
      tm   == IF HLen(h2) > 0 /\ h2.q[1] = item
              THEN ResetCleanupTimer(h2)
              ELSE KeepTimer
  IN  [data |-> d2, q |-> h2.q, items |-> Collect(h2.it, d2, h2.q), tm |-> tm]

SetValCall(k, v, ttl, track) ==
  /\ Calling
  /\ k \in DOMAIN data
       => ValidIndex(Heap(expiryQueue, items), items[data[k]].index)
  /\ \E r \in {SetValResult(k, v, ttl)} :
       /\ data' = r.data
       /\ expiryQueue' = r.q
       /\ items' = r.items
       /\ cleanupTick' = r.tm.cleanupTick
       /\ reaperTimer' = r.tm.reaperTimer
       /\ oldTimer' = r.tm.oldTimer
  /\ written' =
       Put(written, k,
           IF track = "replace" /\ k \in DOMAIN data /\ k \in DOMAIN written
           THEN [Write(v, now + ttl) EXCEPT
                   !.kind = "replaced",
                   !.shorter = written[k].due > now + ttl]
           ELSE Write(v, now + ttl))
  /\ ret' = NoRet
  /\ UNCHANGED <<now, stopClosed, reaperPc, fault>>
  /\ UNCHANGED callersDone
  /\ mutex = Unlocked    \* Lock / RLock
  /\ mutex' = Unlocked   \* deferred Unlock / RUnlock
  /\ UNCHANGED calls

SetVal(k, v, ttl) == SetValCall(k, v, ttl, "none")

\* A Del loop that deletes from the map only.
RECURSIVE DelLoopMapOnly(_, _, _)
DelLoopMapOnly(ks, d, h) ==
  IF ks = <<>> THEN [data |-> d, h |-> h]
  ELSE DelLoopMapOnly(Tail(ks), Drop(d, {Head(ks)}), h)

\* The loop of Del over keys: heap.Remove and delete for each key present.
RECURSIVE DelLoop(_, _, _)
DelLoop(ks, d, h) ==
  IF ks = <<>> THEN [data |-> d, h |-> h]
  ELSE LET k == Head(ks)
       IN  IF k \in DOMAIN d
           THEN DelLoop(Tail(ks), Drop(d, {k}), HeapRemove(h, h.it[d[k]].index))
           ELSE DelLoop(Tail(ks), d, h)

\* Del(ctx, keys...): the state it leaves.
DelResult(ks) ==
  LET r  == DelLoop(ks, data, Heap(expiryQueue, items))
      tm == IF HLen(r.h) > 0 THEN ResetCleanupTimer(r.h) ELSE KeepTimer
  IN  [data |-> r.data, q |-> r.h.q, items |-> Collect(r.h.it, r.data, r.h.q),
       tm |-> tm]

\* Every heap.Remove of the loop gets an index inside the heap.
RECURSIVE DelIndicesValid(_, _, _)
DelIndicesValid(ks, d, h) ==
  IF ks = <<>> THEN TRUE
  ELSE LET k == Head(ks)
       IN  IF k \in DOMAIN d
           THEN /\ ValidIndex(h, h.it[d[k]].index)
                /\ DelIndicesValid(Tail(ks), Drop(d, {k}),
                                   HeapRemove(h, h.it[d[k]].index))
           ELSE DelIndicesValid(Tail(ks), d, h)

DelCall(ks, track) ==
  /\ Calling
  /\ DelIndicesValid(ks, data, Heap(expiryQueue, items))
  /\ \E r \in {DelResult(ks)} :
       /\ data' = r.data
       /\ expiryQueue' = r.q
       /\ items' = r.items
       /\ cleanupTick' = r.tm.cleanupTick
       /\ reaperTimer' = r.tm.reaperTimer
       /\ oldTimer' = r.tm.oldTimer
  /\ written' = Drop(written, Range(ks))
  /\ ret' = IF track = "call"
            THEN [op |-> "Del", args |-> ks, val |-> 0]
            ELSE NoRet
  /\ UNCHANGED <<now, stopClosed, reaperPc, fault>>
  /\ UNCHANGED callersDone
  /\ mutex = Unlocked    \* Lock / RLock
  /\ mutex' = Unlocked   \* deferred Unlock / RUnlock
  /\ UNCHANGED calls

Del(ks) == DelCall(ks, "none")

\* An Expire that extends the old expiration by the duration.
ExpireResultExtend(k, ttl) ==
  LET item == data[k]
      h1   == HeapRemove(Heap(expiryQueue, items), items[item].index)
      it2  == [h1.it EXCEPT ![item].expiration = @ + ttl]
      h2   == HeapPush(Heap(h1.q, it2), item)
  IN  [data |-> data, q |-> h2.q, items |-> Collect(h2.it, data, h2.q),
       tm |-> ResetCleanupTimer(h2)]

\* Expire(ctx, key, expiration): the state it leaves for a key in the map.
ExpireResult(k, ttl) ==
  LET item == data[k]
      h1   == HeapRemove(Heap(expiryQueue, items), items[item].index)
      it2  == [h1.it EXCEPT ![item].expiration = now + ttl]
      h2   == HeapPush(Heap(h1.q, it2), item)
  IN  [data |-> data, q |-> h2.q, items |-> Collect(h2.it, data, h2.q),
       tm |-> ResetCleanupTimer(h2)]

\* An Expire that resets the timer also for a key not in the map.
ExpireCallAlwaysReset(k, ttl, track) ==
  /\ Calling
  /\ IF k \notin DOMAIN data
     THEN /\ \E tm \in {ResetCleanupTimer(Heap(expiryQueue, items))} :
               /\ cleanupTick' = tm.cleanupTick
               /\ reaperTimer' = tm.reaperTimer
               /\ oldTimer' = tm.oldTimer
          /\ UNCHANGED <<data, expiryQueue, items, written>>
     ELSE /\ ValidIndex(Heap(expiryQueue, items), items[data[k]].index)
          /\ \E r \in {ExpireResult(k, ttl)} :
               /\ data' = r.data
               /\ expiryQueue' = r.q
               /\ items' = r.items
               /\ cleanupTick' = r.tm.cleanupTick
               /\ reaperTimer' = r.tm.reaperTimer
               /\ oldTimer' = r.tm.oldTimer
          /\ written' =
               IF k \notin DOMAIN written THEN written
               ELSE Put(written, k,
                        IF track # "renew"
                        THEN Write(written[k].value, now + ttl)
                        ELSE IF now < written[k].due
                        THEN [Write(written[k].value, now + ttl) EXCEPT
                                !.kind = "renewed",
                                !.origLeft = written[k].due - now]
                        ELSE [Write(written[k].value, now + ttl) EXCEPT
                                !.kind = "revived"])
  /\ ret' = IF track = "call"
            THEN [op |-> "Expire", args |-> <<k>>, val |-> 0]
            ELSE NoRet
  /\ UNCHANGED <<now, stopClosed, reaperPc, fault>>
  /\ UNCHANGED callersDone
  /\ mutex = Unlocked    \* Lock / RLock
  /\ mutex' = Unlocked   \* deferred Unlock / RUnlock
  /\ UNCHANGED calls

ExpireCall(k, ttl, track) ==
  /\ Calling
  /\ IF k \notin DOMAIN data
     THEN UNCHANGED <<data, expiryQueue, items, cleanupTick, reaperTimer,
                      oldTimer, written>>
     ELSE /\ ValidIndex(Heap(expiryQueue, items), items[data[k]].index)
          /\ \E r \in {ExpireResult(k, ttl)} :
               /\ data' = r.data
               /\ expiryQueue' = r.q
               /\ items' = r.items
               /\ cleanupTick' = r.tm.cleanupTick
               /\ reaperTimer' = r.tm.reaperTimer
               /\ oldTimer' = r.tm.oldTimer
          /\ written' =
               IF k \notin DOMAIN written THEN written
               ELSE Put(written, k,
                        IF track # "renew"
                        THEN Write(written[k].value, now + ttl)
                        ELSE IF now < written[k].due
                        THEN [Write(written[k].value, now + ttl) EXCEPT
                                !.kind = "renewed",
                                !.origLeft = written[k].due - now]
                        ELSE [Write(written[k].value, now + ttl) EXCEPT
                                !.kind = "revived"])
  /\ ret' = IF track = "call"
            THEN [op |-> "Expire", args |-> <<k>>, val |-> 0]
            ELSE NoRet
  /\ UNCHANGED <<now, stopClosed, reaperPc, fault>>
  /\ UNCHANGED callersDone
  /\ mutex = Unlocked    \* Lock / RLock
  /\ mutex' = Unlocked   \* deferred Unlock / RUnlock
  /\ UNCHANGED calls

Expire(k, ttl) == ExpireCall(k, ttl, "none")

\* A Close that keeps the heap.
CloseCallKeepHeap(track) ==
  /\ Calling
  /\ mutex = Unlocked    \* Lock
  /\ IF stopClosed
     THEN /\ fault' = "close of closed channel"
          /\ ret' = NoRet
          /\ UNCHANGED <<data, expiryQueue, items, stopClosed, written>>
     ELSE /\ stopClosed' = TRUE
          /\ data' = <<>>
          /\ UNCHANGED <<expiryQueue, items>>
          /\ written' = <<>>
          /\ ret' = IF track = "call"
                    THEN [op |-> "Close", args |-> <<>>,
                          val |-> Cardinality(DOMAIN data)]
                    ELSE NoRet
          /\ UNCHANGED fault
  /\ mutex' = Unlocked   \* deferred Unlock, also when close panics
  /\ UNCHANGED calls
  /\ UNCHANGED <<now, cleanupTick, reaperPc, reaperTimer, oldTimer>>
  /\ UNCHANGED callersDone

\* A Close that unlocks only when it returns.
CloseCallNoDefer(track) ==
  /\ Calling
  /\ mutex = Unlocked    \* Lock
  /\ IF stopClosed
     THEN /\ fault' = "close of closed channel"
          /\ ret' = NoRet
          /\ UNCHANGED <<data, expiryQueue, items, stopClosed, written>>
     ELSE /\ stopClosed' = TRUE
          /\ data' = <<>>
          /\ expiryQueue' = <<>>
          /\ items' = <<>>
          /\ written' = <<>>
          /\ ret' = IF track = "call"
                    THEN [op |-> "Close", args |-> <<>>,
                          val |-> Cardinality(DOMAIN data)]
                    ELSE NoRet
          /\ UNCHANGED fault
  /\ mutex' = IF stopClosed THEN WriteLocked ELSE Unlocked
  /\ UNCHANGED calls
  /\ UNCHANGED <<now, cleanupTick, reaperPc, reaperTimer, oldTimer>>
  /\ UNCHANGED callersDone

\* Close(): close(m.stopChan) panics on a closed channel (the deferred
\* Unlock runs, the panic ends the process); otherwise both structures
\* are replaced by empty ones.
CloseCall(track) ==
  /\ Calling
  /\ mutex = Unlocked    \* Lock
  /\ IF stopClosed
     THEN /\ fault' = "close of closed channel"
          /\ ret' = NoRet
          /\ UNCHANGED <<data, expiryQueue, items, stopClosed, written>>
     ELSE /\ stopClosed' = TRUE
          /\ data' = <<>>
          /\ expiryQueue' = <<>>
          /\ items' = <<>>
          /\ written' = <<>>
          /\ ret' = IF track = "call"
                    THEN [op |-> "Close", args |-> <<>>,
                          val |-> Cardinality(DOMAIN data)]
                    ELSE NoRet
          /\ UNCHANGED fault
  /\ mutex' = Unlocked   \* deferred Unlock, also when close panics
  /\ UNCHANGED calls
  /\ UNCHANGED <<now, cleanupTick, reaperPc, reaperTimer, oldTimer>>
  /\ UNCHANGED callersDone

Close == CloseCall("none")

\* ---------------------------------------------- the cleanup goroutine
\* The timer whose channel the goroutine's select waits on.
AwaitedTimer == IF reaperTimer = "current" THEN cleanupTick ELSE oldTimer

\* A timer channel delivers once the timer has reached its deadline without
\* having been stopped (a receive after Stop blocks: Go 1.23 timers).
Fires(t) == t.state = "armed" /\ now >= t.deadline

\* The instant at which a receive from the channel of timer t gets its
\* value (Never: the receive blocks for good).
Never == 0 - 1

WakeTime(t) ==
  IF t.state = "armed"
  THEN (IF t.deadline < now THEN now ELSE t.deadline)
  ELSE Never

\* The instant at which the timer wakes the goroutine: that of the timer it
\* waits on, or of m.cleanupTick when it is about to enter its select.
ReaperWake ==
  IF reaperPc = "wait" THEN WakeTime(AwaitedTimer)
  ELSE IF reaperPc = "select" THEN WakeTime(cleanupTick)
  ELSE IF reaperPc = "cleanup" THEN now
  ELSE Never

\* Entering the select of startCleanup: m.cleanupTick.C and m.stopChan are
\* evaluated once, without the mutex.
ReaperSelect ==
  /\ Running
  /\ reaperPc = "select"
  /\ reaperPc' = "wait"
  /\ reaperTimer' = "current"
  /\ ret' = NoRet
  /\ UNCHANGED <<now, items, data, expiryQueue, cleanupTick, stopClosed,
                 oldTimer, fault, written>>
  /\ UNCHANGED callersDone
  /\ UNCHANGED mutex
  /\ UNCHANGED calls

\* case <-m.cleanupTick.C: the awaited timer has fired.
ReaperTick ==
  /\ Running
  /\ reaperPc = "wait"
  /\ Fires(AwaitedTimer)
  /\ reaperPc' = "cleanup"
  /\ cleanupTick' = IF reaperTimer = "current"
                    THEN [cleanupTick EXCEPT !.state = "fired"]
                    ELSE cleanupTick
  /\ reaperTimer' = "none"
  /\ oldTimer' = NoTimer
  /\ ret' = NoRet
  /\ UNCHANGED <<now, items, data, expiryQueue, stopClosed, fault, written>>
  /\ UNCHANGED callersDone
  /\ UNCHANGED mutex
  /\ UNCHANGED calls

\* A cleanup loop that pops the root whatever its expiration.
RECURSIVE CleanupLoopAll(_, _)
CleanupLoopAll(d, h) ==
  IF HLen(h) = 0 THEN [data |-> d, h |-> h]
  ELSE CleanupLoopAll(Drop(d, {h.it[h.q[1]].key}), HeapPop(h))

\* A cleanup loop that leaves an item whose expiration is now.
RECURSIVE CleanupLoopStrict(_, _)
CleanupLoopStrict(d, h) ==
  IF HLen(h) = 0 THEN [data |-> d, h |-> h]
  ELSE LET item == h.q[1]
       IN  IF now <= h.it[item].expiration
           THEN [data |-> d, h |-> h]
           ELSE CleanupLoopStrict(Drop(d, {h.it[item].key}), HeapPop(h))

\* The loop of cleanupExpired: pop while the root is not before now.
RECURSIVE CleanupLoop(_, _)
CleanupLoop(d, h) ==
  IF HLen(h) = 0 THEN [data |-> d, h |-> h]
  ELSE LET item == h.q[1]
       IN  IF now < h.it[item].expiration
           THEN [data |-> d, h |-> h]
           ELSE CleanupLoop(Drop(d, {h.it[item].key}), HeapPop(h))

\* cleanupExpired(): the state it leaves.
CleanupResult ==
  LET r == CleanupLoop(data, Heap(expiryQueue, items))
  IN  [data |-> r.data, q |-> r.h.q, items |-> Collect(r.h.it, r.data, r.h.q),
       tm |-> ResetCleanupTimer(r.h)]

\* m.cleanupExpired(), called after the receive from the timer channel.
ReaperCleanupCall(track) ==
  /\ Running
  /\ reaperPc = "cleanup"
  /\ \E r \in {CleanupResult} :
       /\ data' = r.data
       /\ expiryQueue' = r.q
       /\ items' = r.items
       /\ cleanupTick' = r.tm.cleanupTick
       /\ reaperTimer' = r.tm.reaperTimer
       /\ oldTimer' = r.tm.oldTimer
  /\ written' = Drop(written, {k \in DOMAIN written :
                                  /\ k \in DOMAIN data
                                  /\ k \notin DOMAIN data'
                                  /\ now >= written[k].due})
  /\ reaperPc' = "select"
  /\ ret' = IF track = "call"
            THEN [op |-> "cleanupExpired", args |-> <<>>,
                  val |-> Len(expiryQueue) - Len(expiryQueue')]
            ELSE NoRet
  /\ UNCHANGED <<now, stopClosed, fault>>
  /\ UNCHANGED callersDone
  /\ mutex = Unlocked    \* Lock / RLock
  /\ mutex' = Unlocked   \* deferred Unlock / RUnlock
  /\ UNCHANGED calls

ReaperCleanup == ReaperCleanupCall("none")

\* A goroutine that returns from its select without stopChan being closed.
ReaperStopEarly ==
  /\ Running
  /\ reaperPc = "wait"
  /\ reaperPc' = "done"
  /\ cleanupTick' = StopTimer(cleanupTick)
  /\ reaperTimer' = "none"
  /\ oldTimer' = NoTimer
  /\ ret' = NoRet
  /\ UNCHANGED <<now, items, data, expiryQueue, stopClosed, fault, written>>
  /\ UNCHANGED callersDone
  /\ UNCHANGED mutex
  /\ UNCHANGED calls

\* A stop case that stops the timer and goes on with the loop.
ReaperStopContinue ==
  /\ Running
  /\ reaperPc = "wait"
  /\ stopClosed
  /\ reaperPc' = "select"
  /\ cleanupTick' = StopTimer(cleanupTick)
  /\ reaperTimer' = "none"
  /\ oldTimer' = NoTimer
  /\ ret' = NoRet
  /\ UNCHANGED <<now, items, data, expiryQueue, stopClosed, fault, written>>
  /\ UNCHANGED callersDone
  /\ UNCHANGED mutex
  /\ UNCHANGED calls

\* case <-m.stopChan: m.cleanupTick.Stop(); return.
ReaperStop ==
  /\ Running
  /\ reaperPc = "wait"
  /\ stopClosed
  /\ reaperPc' = "done"
  /\ cleanupTick' = StopTimer(cleanupTick)
  /\ reaperTimer' = "none"
  /\ oldTimer' = NoTimer
  /\ ret' = NoRet
  /\ UNCHANGED <<now, items, data, expiryQueue, stopClosed, fault, written>>
  /\ UNCHANGED callersDone
  /\ UNCHANGED mutex
  /\ UNCHANGED calls

Reaper == ReaperSelect \/ ReaperTick \/ ReaperCleanup \/ ReaperStop

\* The number of goroutines running startCleanup: the one NewMemoryHelper
\* starts, until it returns.
ReaperTasks == IF reaperPc = "done" THEN 0 ELSE 1

\* ----------------------------------------------------- caller reads
Exists(ks) ==
  /\ Calling
  /\ ret' = [op |-> "Exists", args |-> ks, val |-> ExistsCount(ks)]
  /\ UNCHANGED <<now, items, data, expiryQueue, cleanupTick, stopClosed,
                 reaperPc, reaperTimer, oldTimer, fault, written>>
  /\ UNCHANGED callersDone
  /\ mutex = Unlocked    \* Lock / RLock
  /\ mutex' = Unlocked   \* deferred Unlock / RUnlock
  /\ UNCHANGED calls

GetAllCall ==
  /\ Calling
  /\ \E order \in MapOrders :
       ret' = [op |-> "GetAll", args |-> <<>>, val |-> GetAllLoop(order)]
  /\ UNCHANGED <<now, items, data, expiryQueue, cleanupTick, stopClosed,
                 reaperPc, reaperTimer, oldTimer, fault, written>>
  /\ UNCHANGED callersDone
  /\ mutex = Unlocked    \* Lock / RLock
  /\ mutex' = Unlocked   \* deferred Unlock / RUnlock
  /\ UNCHANGED calls

\* Get(ctx, key): GetVal, then "" for nil and val.(string) otherwise; the
\* type assertion panics on a value that is not a string (GetVal has
\* returned by then and released the mutex).
Get(k) ==
  /\ Calling
  /\ mutex = Unlocked    \* RLock in GetVal
  /\ \E val \in {GetVal(k)} :
       IF val = NilVal
       THEN /\ ret' = [op |-> "Get", args |-> <<k>>, val |-> ""]
            /\ UNCHANGED fault
       ELSE IF IsString(val)
       THEN /\ ret' = [op |-> "Get", args |-> <<k>>, val |-> val]
            /\ UNCHANGED fault
       ELSE /\ ret' = NoRet
            /\ fault' = "interface conversion: not string"
  /\ mutex' = Unlocked   \* deferred RUnlock in GetVal
  /\ UNCHANGED calls
  /\ UNCHANGED <<now, items, data, expiryQueue, cleanupTick, stopClosed,
                 reaperPc, reaperTimer, oldTimer, written, callersDone>>

\* ------------------------------------- the calls, statement by statement
\* SpecLock takes every call as the sequence of its statements: the call
\* is made (pc "lock"), Lock or RLock returns (pc "body"), the statements
\* between them run, and the deferred Unlock or RUnlock runs (pc "unlock").
WriteOps == {"SetVal", "Del", "Expire", "Close", "cleanupExpired"}
ReadOps == {"GetVal", "Exists", "GetAll"}

\* An RLock that returns although the mutex is held for writing.
CanRLockAlways == TRUE

\* sync.RWMutex: Lock returns when nobody holds the mutex, RLock when no
\* writer holds it.
CanLock == ~mutex.writer /\ mutex.readers = 0

CanRLock == ~mutex.writer

\* Goroutine g moves to position pc of its call.
Goto(g, pc) == calls' = [calls EXCEPT ![g].pc = pc]

\* A caller makes a call.
Enter(g, op, k, ttl) ==
  /\ Calling
  /\ calls[g] = NoCall
  /\ calls' = [calls EXCEPT ![g] = [op |-> op, pc |-> "lock", key |-> k,
                                     ttl |-> ttl]]
  /\ ret' = NoRet
  /\ UNCHANGED <<now, items, data, expiryQueue, cleanupTick, stopClosed,
                 reaperPc, reaperTimer, oldTimer, fault, written,
                 callersDone, mutex>>

\* m.mutex.Lock() of a caller
LockCall(g) ==
  /\ Running
  /\ g \in Callers
  /\ calls[g].pc = "lock"
  /\ calls[g].op \in WriteOps
  /\ CanLock
  /\ mutex' = WriteLocked
  /\ Goto(g, "body")
  /\ ret' = NoRet
  /\ UNCHANGED <<now, items, data, expiryQueue, cleanupTick, stopClosed,
                 reaperPc, reaperTimer, oldTimer, fault, written,
                 callersDone>>

\* m.mutex.RLock()
RLockCall(g) ==
  /\ Running
  /\ calls[g].pc = "lock"
  /\ calls[g].op \in ReadOps
  /\ CanRLock
  /\ mutex' = [mutex EXCEPT !.readers = @ + 1]
  /\ Goto(g, "body")
  /\ ret' = NoRet
  /\ UNCHANGED <<now, items, data, expiryQueue, cleanupTick, stopClosed,
                 reaperPc, reaperTimer, oldTimer, fault, written,
                 callersDone>>

\* The deferred m.mutex.Unlock() or m.mutex.RUnlock(); the call returns
\* (cleanupExpired returns to the loop of startCleanup).
UnlockCall(g) ==
  /\ Running
  /\ calls[g].pc = "unlock"
  /\ mutex' = IF calls[g].op \in ReadOps
              THEN [mutex EXCEPT !.readers = @ - 1]
              ELSE Unlocked
  /\ calls' = [calls EXCEPT ![g] = NoCall]
  /\ reaperPc' = IF g = 0 THEN "select" ELSE reaperPc
  /\ ret' = NoRet
  /\ UNCHANGED <<now, items, data, expiryQueue, cleanupTick, stopClosed,
                 reaperTimer, oldTimer, fault, written, callersDone>>

\* SetVal up to m.data[key] = item: the new item, heap.Remove of the old
\* one, the assignment to the map.
SetValStore(g) ==
  /\ Running
  /\ calls[g].op = "SetVal"
  /\ calls[g].pc = "body"
  /\ LET k    == calls[g].key
         h0   == Heap(expiryQueue, items)
         h1   == IF k \in DOMAIN data
                 THEN HeapRemove(h0, items[data[k]].index)
                 ELSE h0
         item == NewItem(k, Range(h1.q) \cup Range(Drop(data, {k})))
         it2  == Put(h1.it, item,
                     [key |-> k, value |-> "v1",
                      expiration |-> now + calls[g].ttl, index |-> 0])
         d2   == Put(data, k, item)
     IN  /\ data' = d2
         /\ expiryQueue' = h1.q
         /\ items' = Collect(it2, d2, h1.q)
  /\ Goto(g, "push")
  /\ ret' = NoRet
  /\ UNCHANGED <<now, cleanupTick, stopClosed, reaperPc, reaperTimer,
                 oldTimer, fault, written, callersDone, mutex>>

\* SetVal from heap.Push on: the push and the timer.
SetValPush(g) ==
  /\ Running
  /\ calls[g].op = "SetVal"
  /\ calls[g].pc = "push"
  /\ LET item == data[calls[g].key]
         h2   == HeapPush(Heap(expiryQueue, items), item)
         tm   == IF HLen(h2) > 0 /\ h2.q[1] = item
                 THEN ResetCleanupTimer(h2)
                 ELSE KeepTimer
     IN  /\ expiryQueue' = h2.q
         /\ items' = Collect(h2.it, data, h2.q)
         /\ cleanupTick' = tm.cleanupTick
         /\ reaperTimer' = tm.reaperTimer
         /\ oldTimer' = tm.oldTimer
  /\ Goto(g, "unlock")
  /\ ret' = NoRet
  /\ UNCHANGED <<now, data, stopClosed, reaperPc, fault, written,
                 callersDone, mutex>>

\* Del of one key up to heap.Remove; for a key not in the map the loop is
\* over and the timer is next.
DelRemove(g) ==
  /\ Running
  /\ calls[g].op = "Del"
  /\ calls[g].pc = "body"
  /\ LET k  == calls[g].key
         h0 == Heap(expiryQueue, items)
     IN  IF k \in DOMAIN data
         THEN LET h1 == HeapRemove(h0, items[data[k]].index)
              IN  /\ expiryQueue' = h1.q
                  /\ items' = Collect(h1.it, data, h1.q)
                  /\ Goto(g, "delete")
                  /\ UNCHANGED <<cleanupTick, reaperTimer, oldTimer>>
         ELSE LET tm == IF HLen(h0) > 0 THEN ResetCleanupTimer(h0)
                        ELSE KeepTimer
              IN  /\ cleanupTick' = tm.cleanupTick
                  /\ reaperTimer' = tm.reaperTimer
                  /\ oldTimer' = tm.oldTimer
                  /\ Goto(g, "unlock")
                  /\ UNCHANGED <<expiryQueue, items>>
  /\ ret' = NoRet
  /\ UNCHANGED <<now, data, stopClosed, reaperPc, fault, written,
                 callersDone, mutex>>

\* Del from delete(m.data, key) on: the delete and the timer.
DelDelete(g) ==
  /\ Running
  /\ calls[g].op = "Del"
  /\ calls[g].pc = "delete"
  /\ LET d2 == Drop(data, {calls[g].key})
         h  == Heap(expiryQueue, Collect(items, d2, expiryQueue))
         tm == IF HLen(h) > 0 THEN ResetCleanupTimer(h) ELSE KeepTimer
     IN  /\ data' = d2
         /\ items' = h.it
         /\ cleanupTick' = tm.cleanupTick
         /\ reaperTimer' = tm.reaperTimer
         /\ oldTimer' = tm.oldTimer
  /\ Goto(g, "unlock")
  /\ ret' = NoRet
  /\ UNCHANGED <<now, expiryQueue, stopClosed, reaperPc, fault, written,
                 callersDone, mutex>>

\* Expire up to heap.Remove; for a key not in the map it returns.
ExpireRemove(g) ==
  /\ Running
  /\ calls[g].op = "Expire"
  /\ calls[g].pc = "body"
  /\ LET k == calls[g].key
     IN  IF k \in DOMAIN data
         THEN LET h1 == HeapRemove(Heap(expiryQueue, items),
                                   items[data[k]].index)
              IN  /\ expiryQueue' = h1.q
                  /\ items' = Collect(h1.it, data, h1.q)
                  /\ Goto(g, "push")
         ELSE /\ Goto(g, "unlock")
              /\ UNCHANGED <<expiryQueue, items>>
  /\ ret' = NoRet
  /\ UNCHANGED <<now, data, cleanupTick, stopClosed, reaperPc, reaperTimer,
                 oldTimer, fault, written, callersDone, mutex>>

\* Expire from item.expiration = ... on: the new expiration, heap.Push and
\* the timer.
ExpirePush(g) ==
  /\ Running
  /\ calls[g].op = "Expire"
  /\ calls[g].pc = "push"
  /\ LET item == data[calls[g].key]
         it2  == [items EXCEPT ![item].expiration = now + calls[g].ttl]
         h2   == HeapPush(Heap(expiryQueue, it2), item)
         tm   == ResetCleanupTimer(h2)
     IN  /\ expiryQueue' = h2.q
         /\ items' = Collect(h2.it, data, h2.q)
         /\ cleanupTick' = tm.cleanupTick
         /\ reaperTimer' = tm.reaperTimer
         /\ oldTimer' = tm.oldTimer
  /\ Goto(g, "unlock")
  /\ ret' = NoRet
  /\ UNCHANGED <<now, data, stopClosed, reaperPc, fault, written,
                 callersDone, mutex>>

\* Close up to m.data = make(...): close(m.stopChan), which panics on a
\* closed channel (the deferred Unlock runs), and the new map.
CloseMap(g) ==
  /\ Running
  /\ calls[g].op = "Close"
  /\ calls[g].pc = "body"
  /\ IF stopClosed
     THEN /\ fault' = "close of closed channel"
          /\ mutex' = Unlocked
          /\ calls' = [calls EXCEPT ![g] = NoCall]
          /\ UNCHANGED <<data, items, stopClosed>>
     ELSE /\ stopClosed' = TRUE
          /\ data' = <<>>
          /\ items' = Collect(items, <<>>, expiryQueue)
          /\ Goto(g, "heap")
          /\ UNCHANGED <<fault, mutex>>
  /\ ret' = NoRet
  /\ UNCHANGED <<now, expiryQueue, cleanupTick, reaperPc, reaperTimer,
                 oldTimer, written, callersDone>>

\* Close: m.expiryQueue = make(expiryHeap, 0).
CloseHeap(g) ==
  /\ Running
  /\ calls[g].op = "Close"
  /\ calls[g].pc = "heap"
  /\ expiryQueue' = <<>>
  /\ items' = Collect(items, data, <<>>)
  /\ Goto(g, "unlock")
  /\ ret' = NoRet
  /\ UNCHANGED <<now, data, cleanupTick, stopClosed, reaperPc, reaperTimer,
                 oldTimer, fault, written, callersDone, mutex>>

\* The statements of GetVal, Exists (of one key) and GetAll between RLock
\* and RUnlock.
ReadBody(g) ==
  /\ Running
  /\ calls[g].op \in ReadOps
  /\ calls[g].pc = "body"
  /\ \/ /\ calls[g].op = "GetVal"
        /\ ret' = [op |-> "GetVal", args |-> <<calls[g].key>>,
                   val |-> GetVal(calls[g].key)]
     \/ /\ calls[g].op = "Exists"
        /\ ret' = [op |-> "Exists", args |-> <<calls[g].key>>,
                   val |-> ExistsCount(<<calls[g].key>>)]
     \/ /\ calls[g].op = "GetAll"
        /\ \E order \in MapOrders :
             ret' = [op |-> "GetAll", args |-> <<>>,
                     val |-> GetAllLoop(order)]
  /\ Goto(g, "unlock")
  /\ UNCHANGED <<now, items, data, expiryQueue, cleanupTick, stopClosed,
                 reaperPc, reaperTimer, oldTimer, fault, written,
                 callersDone, mutex>>

\* m.mutex.Lock() of cleanupExpired, called after the receive from the
\* timer channel.
CleanupLock ==
  /\ Running
  /\ reaperPc = "cleanup"
  /\ calls[0] = NoCall
  /\ CanLock
  /\ mutex' = WriteLocked
  /\ calls' = [calls EXCEPT ![0] = [op |-> "cleanupExpired", pc |-> "body",
                                     key |-> 0, ttl |-> 0]]
  /\ ret' = NoRet
  /\ UNCHANGED <<now, items, data, expiryQueue, cleanupTick, stopClosed,
                 reaperPc, reaperTimer, oldTimer, fault, written,
                 callersDone>>

\* The head of the loop of cleanupExpired: heap.Pop of a root that is not
\* after now, or the end of the loop and the timer.
CleanupPop ==
  /\ Running
  /\ calls[0].op = "cleanupExpired"
  /\ calls[0].pc = "body"
  /\ LET h == Heap(expiryQueue, items)
     IN  IF HLen(h) = 0 \/ now < items[expiryQueue[1]].expiration
         THEN LET tm == ResetCleanupTimer(h)
              IN  /\ cleanupTick' = tm.cleanupTick
                  /\ reaperTimer' = tm.reaperTimer
                  /\ oldTimer' = tm.oldTimer
                  /\ Goto(0, "unlock")
                  /\ UNCHANGED <<expiryQueue, items>>
         ELSE LET h1 == HeapPop(h)
              IN  /\ expiryQueue' = h1.q
                  /\ items' = Collect(h1.it, data, h1.q)
                  /\ calls' = [calls EXCEPT
                                 ![0].pc = "delete",
                                 ![0].key = items[expiryQueue[1]].key]
                  /\ UNCHANGED <<cleanupTick, reaperTimer, oldTimer>>
  /\ ret' = NoRet
  /\ UNCHANGED <<now, data, stopClosed, reaperPc, fault, written,
                 callersDone, mutex>>

\* The loop of cleanupExpired: delete(m.data, item.key).
CleanupDelete ==
  /\ Running
  /\ calls[0].op = "cleanupExpired"
  /\ calls[0].pc = "delete"
  /\ data' = Drop(data, {calls[0].key})
  /\ items' = Collect(items, data', expiryQueue)
  /\ calls' = [calls EXCEPT ![0].pc = "body", ![0].key = 0]
  /\ ret' = NoRet
  /\ UNCHANGED <<now, expiryQueue, cleanupTick, stopClosed, reaperPc,
                 reaperTimer, oldTimer, fault, written, callersDone, mutex>>

\* ------------------------------------------------------------- Next
\* Spec: the callers' writes, the goroutine and the clock.
Next ==
  \/ Tick
  \/ \E k \in Keys, v \in Values, ttl \in Ttls : SetVal(k, v, ttl)
  \/ \E ks \in KeySeqs : Del(ks)
  \/ \E k \in Keys, ttl \in Ttls : Expire(k, ttl)
  \/ Close
  \/ Reaper

Spec == Init /\ [][Next]_vars

\* The callers return from their last call; the process stays alive.
CallersFinish ==
  /\ Calling
  /\ callersDone' = TRUE
  /\ ret' = NoRet
  /\ UNCHANGED <<now, items, data, expiryQueue, cleanupTick, stopClosed,
                 reaperPc, reaperTimer, oldTimer, fault, written>>
  /\ UNCHANGED mutex
  /\ UNCHANGED calls

\* FairSpec: the callers may finish; the goroutine is scheduled whenever it
\* can take a step (the Go scheduler starves no runnable goroutine) and the
\* clock keeps advancing.
NextFair ==
  \/ Next
  \/ CallersFinish

FairSpec == Init /\ [][NextFair]_vars /\ WF_vars(Reaper) /\ WF_vars(Tick)

\* SpecRenew: the same program, the history recording renewals.
ExpireTrackRenew(k, ttl) == ExpireCall(k, ttl, "renew")

TickTrackRenew == Clock("renew")

\* The callers set positive durations, and renew with durations from 0 to
\* one more than the longest they set.
PositiveTtls == 1..MaxTtl
RenewTtls == 0..(MaxTtl + 1)

NextRenew ==
  \/ TickTrackRenew
  \/ \E k \in Keys, v \in Values, ttl \in PositiveTtls : SetVal(k, v, ttl)
  \/ \E ks \in KeySeqs : Del(ks)
  \/ \E k \in Keys, ttl \in RenewTtls : ExpireTrackRenew(k, ttl)
  \/ Close
  \/ Reaper

SpecRenew == Init /\ [][NextRenew]_vars

\* SpecReplace: the same program, the history recording replacements.
SetValTrackReplace(k, v, ttl) == SetValCall(k, v, ttl, "replace")

NextReplace ==
  \/ Tick
  \/ \E k \in Keys, v \in Values, ttl \in Ttls : SetValTrackReplace(k, v, ttl)
  \/ \E ks \in KeySeqs : Del(ks)
  \/ \E k \in Keys, ttl \in Ttls : Expire(k, ttl)
  \/ Close
  \/ Reaper

SpecReplace == Init /\ [][NextReplace]_vars

\* SpecExists: the same program, with callers of Exists.
NextExists ==
  \/ Next
  \/ \E ks \in KeySeqs : Exists(ks)

SpecExists == Init /\ [][NextExists]_vars

\* SpecGetAll: the same program, with callers of GetAll.
NextGetAll ==
  \/ Next
  \/ GetAllCall

SpecGetAll == Init /\ [][NextGetAll]_vars

\* SpecHeap: callers that use more keys, one value and the durations 0 and
\* 1, within one tick of the clock.
NumHeapKeys == 6
HeapKeys == 1..NumHeapKeys
HeapTtls == {0, 1}

NextHeap ==
  \/ \E k \in HeapKeys, ttl \in HeapTtls : SetVal(k, "v1", ttl)
  \/ \E k \in HeapKeys : Del(<<k>>)
  \/ \E k \in HeapKeys, ttl \in HeapTtls : Expire(k, ttl)
  \/ ReaperSelect
  \/ ReaperTick
  \/ ReaperCleanup

SpecHeap == Init /\ [][NextHeap]_vars

\* FairStopSpec: callers that store one value with the durations 0 and 1,
\* delete, close and may finish; the goroutine and the clock are scheduled
\* as in FairSpec, and the select does not pass over a ready stopChan for
\* ever (a select with several ready cases picks one at random).
NextStop ==
  \/ Tick
  \/ \E k \in Keys, ttl \in HeapTtls : SetVal(k, "v1", ttl)
  \/ \E k \in Keys : Del(<<k>>)
  \/ Close
  \/ CallersFinish
  \/ Reaper

FairStopSpec ==
  Init /\ [][NextStop]_vars /\ WF_vars(Reaper) /\ WF_vars(Tick)
       /\ SF_vars(ReaperStop)

\* SpecDel: the callers of SpecHeap calling SetVal and Del (with one or two
\* keys) before the goroutine is scheduled, ret holding the last Del.
HeapDelArgs ==
  {<<k>> : k \in HeapKeys}
    \cup {<<k, (k % NumHeapKeys) + 1>> : k \in HeapKeys}

DelRecorded(ks) == DelCall(ks, "call")

NextDel ==
  \/ \E k \in HeapKeys, ttl \in HeapTtls : SetVal(k, "v1", ttl)
  \/ \E ks \in HeapDelArgs : DelRecorded(ks)

SpecDel == Init /\ [][NextDel]_vars

\* SpecGet: the program of Spec with callers that store values of any type
\* and read with Get.
NextGet ==
  \/ Tick
  \/ \E k \in Keys, v \in AnyValues, ttl \in Ttls : SetVal(k, v, ttl)
  \/ \E k \in Keys : Del(<<k>>)
  \/ \E k \in Keys, ttl \in Ttls : Expire(k, ttl)
  \/ \E k \in Keys : Get(k)
  \/ Close
  \/ Reaper

SpecGet == Init /\ [][NextGet]_vars

\* SpecFrame: the program of Spec, ret holding the last Del, Expire or Close
\* (for Close with the number of keys the map held).
ExpireRecorded(k, ttl) == ExpireCall(k, ttl, "call")

CloseRecorded == CloseCall("call")

NextFrame ==
  \/ Tick
  \/ \E k \in Keys, v \in Values, ttl \in Ttls : SetVal(k, v, ttl)
  \/ \E ks \in KeySeqs : DelRecorded(ks)
  \/ \E k \in Keys, ttl \in Ttls : ExpireRecorded(k, ttl)
  \/ CloseRecorded
  \/ Reaper

SpecFrame == Init /\ [][NextFrame]_vars

\* SpecReap: the program of Spec, ret holding the last cleanupExpired with
\* the number of items it popped.
ReaperCleanupRecorded == ReaperCleanupCall("call")

NextReap ==
  \/ Tick
  \/ \E k \in Keys, v \in Values, ttl \in Ttls : SetVal(k, v, ttl)
  \/ \E ks \in KeySeqs : Del(ks)
  \/ \E k \in Keys, ttl \in Ttls : Expire(k, ttl)
  \/ Close
  \/ ReaperSelect
  \/ ReaperTick
  \/ ReaperCleanupRecorded
  \/ ReaperStop

SpecReap == Init /\ [][NextReap]_vars

\* SpecLock: two callers and the cleanup goroutine, every call statement by
\* statement, within one tick of the clock; the callers store one value
\* with the durations 0 and 1.
LockCalls ==
  {<<op, k, ttl>> : op \in {"SetVal", "Expire"}, k \in Keys, ttl \in {0, 1}}
    \cup {<<op, k, 0>> : op \in {"Del", "GetVal", "Exists"}, k \in Keys}
    \cup {<<"Close", 0, 0>>, <<"GetAll", 0, 0>>}

NextLock ==
  \/ \E g \in Callers, c \in LockCalls : Enter(g, c[1], c[2], c[3])
  \/ \E g \in Callers :
       \/ LockCall(g)
       \/ RLockCall(g)
       \/ SetValStore(g)
       \/ SetValPush(g)
       \/ DelRemove(g)
       \/ DelDelete(g)
       \/ ExpireRemove(g)
       \/ ExpirePush(g)
       \/ CloseMap(g)
       \/ CloseHeap(g)
       \/ ReadBody(g)
  \/ \E g \in Goroutines : UnlockCall(g)
  \/ CleanupLock
  \/ CleanupPop
  \/ CleanupDelete
  \/ ReaperSelect
  \/ ReaperTick
  \/ ReaperStop

SpecLock == Init /\ [][NextLock]_vars

\* -------------------------------------------------------- properties
\* The entries of the heap that carry key k.
HeapEntries(k) == {i \in 1..Len(expiryQueue) : items[expiryQueue[i]].key = k}

\* C1: a key set at t0 with duration ttl, and not set, deleted or renewed
\* since, is returned by GetVal with its value at every instant before
\* t0 + ttl, whatever the goroutine and the callers of other keys do.
C1_LiveBeforeDue ==
  \A k \in DOMAIN written :
     now < written[k].due => GetVal(k) = written[k].value

\* A key still returned after the clock has advanced, with the goroutine
\* back at its select and the other key in the map.
C1_Witness ==
  \E k \in DOMAIN written :
     /\ now > 0
     /\ now < written[k].due
     /\ GetVal(k) = written[k].value
     /\ reaperPc = "select"
     /\ \E k2 \in DOMAIN data : k2 # k

\* C2: a key set at t0 with duration ttl, and not set or renewed since, is
\* absent for GetVal at every instant from t0 + ttl on, the instant
\* t0 + ttl itself included.
C2_AbsentFromDue ==
  \A k \in DOMAIN written :
     now >= written[k].due => GetVal(k) = NilVal

\* An entry of an open cache whose expiration has passed.
ExpiredInStore(k) ==
  /\ ~stopClosed
  /\ k \in DOMAIN data
  /\ items[data[k]].expiration < now

\* C3: while the cache is open, an entry whose expiration has passed is
\* eventually removed from the map and the heap by the goroutine, without
\* a further call: also when the callers have made their last call.
C3_EventuallyReaped ==
  \A k \in Keys : (callersDone /\ ExpiredInStore(k)) ~> ~ExpiredInStore(k)

\* C4: the map and the heap hold the same keys, and the map sends each key
\* to the very item the heap holds for it, after any sequence of SetVal,
\* Del, Expire, cleanup and Close.
C4_Lockstep ==
  /\ DOMAIN data = {items[x].key : x \in Range(expiryQueue)}
  /\ \A k \in DOMAIN data :
        /\ items[data[k]].key = k
        /\ data[k] \in Range(expiryQueue)

\* Two keys stored in a closed cache after the clock has advanced.
C4_Witness ==
  /\ Cardinality(DOMAIN data) = NumKeys
  /\ Len(expiryQueue) = NumKeys
  /\ stopClosed
  /\ now > 0

\* C5: no entry of the heap expires before its parent, so the root is an
\* entry with the earliest expiration.
C5_HeapOrder ==
  \A i \in 2..Len(expiryQueue) :
     items[expiryQueue[i \div 2]].expiration
       <= items[expiryQueue[i]].expiration

\* A full heap with both expirations in it.
C5_Witness ==
  /\ Len(expiryQueue) = NumHeapKeys
  /\ items[expiryQueue[1]].expiration = 0
  /\ \E i \in 2..NumHeapKeys : items[expiryQueue[i]].expiration = 1
  /\ \E i \in 2..NumHeapKeys : items[expiryQueue[i]].expiration = 0

\* C6: the heap holds one entry per key of the map and no more: its length
\* is the number of keys, also after repeated SetVal of one key, after Del
\* and after a cleanup.
C6_OneEntryPerKey ==
  /\ Len(expiryQueue) = Cardinality(DOMAIN data)
  /\ \A k \in DOMAIN data : Cardinality(HeapEntries(k)) = 1

\* A key set over its own entry, next to another key.
C6_Witness ==
  /\ Cardinality(DOMAIN data) = NumKeys
  /\ \E k \in DOMAIN written : written[k].kind = "replaced"
  /\ reaperPc = "select"
  /\ now > 0

\* C7: after SetVal(k, v1, ttl1) at t1 and SetVal(k, v2, ttl2) at t2 there
\* is one entry for k, with value v2 and expiration t2 + ttl2; until that
\* instant GetVal returns v2 and GetAll has exactly one item for k, with
\* that expiration; nothing of the first write remains.
C7_SecondSetReplaces ==
  \A k \in DOMAIN written :
     written[k].kind = "replaced" =>
       /\ k \in DOMAIN data
       /\ Cardinality(HeapEntries(k)) = 1
       /\ items[data[k]].value = written[k].value
       /\ items[data[k]].expiration = written[k].due
       /\ now < written[k].due =>
            /\ GetVal(k) = written[k].value
            /\ {c \in GetAll : c.Key = k}
                 = {[Key |-> k, Value |-> written[k].value,
                     ExpiresAt |-> written[k].due]}

\* A second SetVal with an earlier expiration than the first, read before
\* that expiration.
C7_Witness ==
  \E k \in DOMAIN written :
     /\ written[k].kind = "replaced"
     /\ written[k].shorter
     /\ now < written[k].due
     /\ GetVal(k) = written[k].value

\* C8: Expire(k, ttl) at t1 on a key before its expiration keeps the value and moves
\* the expiration to t1 + ttl: GetVal returns the value before t1 + ttl,
\* also after the original expiration has passed, and nil after t1 + ttl.
C8_RenewMovesExpiry ==
  \A k \in DOMAIN written :
     written[k].kind = "renewed" =>
       /\ k \in DOMAIN data => items[data[k]].expiration = written[k].due
       /\ now < written[k].due => GetVal(k) = written[k].value
       /\ now > written[k].due => GetVal(k) = NilVal

\* A renewed key read after its original expiration has passed.
C8_Witness ==
  \E k \in DOMAIN written :
     /\ written[k].kind = "renewed"
     /\ written[k].origLeft = 0 - 1
     /\ now < written[k].due
     /\ GetVal(k) = written[k].value

\* C9: once the expiration of key k has passed, GetVal(k) stays nil until
\* the next SetVal(k, ...); in particular Expire on an expired key that the
\* goroutine has not removed changes nothing.
C9_ExpiredStaysAbsent ==
  [][\A k \in Keys :
        (/\ k \in DOMAIN data
         /\ now > items[data[k]].expiration
         /\ ~(\E v \in Values, ttl \in Ttls : SetVal(k, v, ttl)))
        => GetVal(k)' = NilVal]_vars

\* The number of arguments of ks that are keys of the map with an
\* expiration not before now.
LiveCount(ks) ==
  Cardinality({i \in DOMAIN ks :
                 /\ ks[i] \in DOMAIN data
                 /\ ~(now > items[data[ks[i]]].expiration)})

\* C10: Exists(keys...) returns the number of the given keys that are in
\* the map and not past their expiration at the call; keys not in the map
\* and keys past their expiration that the goroutine has not removed count
\* 0; the call changes neither the map nor the heap.
C10_ExistsCounts ==
  [][\A ks \in KeySeqs :
        Exists(ks) =>
          /\ ret'.val = LiveCount(ks)
          /\ data' = data
          /\ expiryQueue' = expiryQueue
          /\ items' = items]_vars

\* Exists of a live key and a key past its expiration that is still in the
\* map: the result is 1.
C10_Witness ==
  /\ ret.op = "Exists"
  /\ Len(ret.args) = 2
  /\ ret.val = 1
  /\ \E i, j \in 1..2 :
        /\ ret.args[i] \in DOMAIN data
        /\ now > items[data[ret.args[i]]].expiration
        /\ ret.args[j] \in DOMAIN data
        /\ now <= items[data[ret.args[j]]].expiration

\* C11: GetAll returns exactly one item for each key that is in the map and
\* not past its expiration at the call, with the key's current value and
\* expiration, and no item for an entry past its expiration, removed by
\* the goroutine or not.
C11_GetAllSnapshot ==
  ret.op = "GetAll" =>
    /\ \A k \in Keys :
          Cardinality({i \in DOMAIN ret.val : ret.val[i].Key = k})
            = IF k \in DOMAIN data /\ ~(now > items[data[k]].expiration)
              THEN 1 ELSE 0
    /\ \A i \in DOMAIN ret.val :
          /\ ret.val[i].Key \in DOMAIN data \cap DOMAIN written
          /\ ret.val[i].Value = items[data[ret.val[i].Key]].value
          /\ ret.val[i].ExpiresAt = items[data[ret.val[i].Key]].expiration
          /\ ret.val[i].Value = written[ret.val[i].Key].value
          /\ ret.val[i].ExpiresAt = written[ret.val[i].Key].due

\* GetAll of a map with a live key and a key past its expiration: one item.
C11_Witness ==
  /\ ret.op = "GetAll"
  /\ Len(ret.val) = 1
  /\ Cardinality(DOMAIN data) = NumKeys
  /\ \E k \in DOMAIN data : now > items[data[k]].expiration

\* C12: Del(keys...) removes every named key from the map and the heap, so
\* that GetVal returns nil for it, and leaves every other key with its
\* item, value and expiration, in the map and in the heap, wherever the
\* removed items sat in the heap.
C12_DelRemovesNamedOnly ==
  [][ret'.op = "Del" =>
       /\ \A k \in HeapKeys :
             k \in Range(ret'.args) =>
               /\ k \notin DOMAIN data'
               /\ HeapEntries(k)' = {}
               /\ GetVal(k)' = NilVal
       /\ \A k \in DOMAIN data \ Range(ret'.args) :
             /\ k \in DOMAIN data'
             /\ data'[k] \in Range(expiryQueue')
             /\ items'[data'[k]].key = k
             /\ items'[data'[k]].value = items[data[k]].value
             /\ items'[data'[k]].expiration = items[data[k]].expiration
             /\ Cardinality(HeapEntries(k)') = 1]_vars

\* A Del of two keys that has left four others, of both expirations.
C12_Witness ==
  /\ ret.op = "Del"
  /\ Len(ret.args) = 2
  /\ Cardinality(DOMAIN data) = NumHeapKeys - 2
  /\ \E k1, k2 \in DOMAIN data :
        items[data[k1]].expiration < items[data[k2]].expiration

\* C13: Del of keys that are not in the map changes nothing: not the map,
\* not the heap, not the instant at which the timer wakes the goroutine,
\* and it raises no panic.
C13_DelAbsentNoOp ==
  [][(ret'.op = "Del" /\ Range(ret'.args) \cap DOMAIN data = {}) =>
       /\ data' = data
       /\ expiryQueue' = expiryQueue
       /\ items' = items
       /\ fault' = fault
       /\ ReaperWake' = ReaperWake]_vars


\* C14: Expire of a key that is not in the map changes nothing: it creates
\* no item, raises no panic and leaves the map, the heap and the timer (the
\* one armed and the one the goroutine waits on) as they were.
C14_ExpireAbsentNoOp ==
  [][(ret'.op = "Expire" /\ ret'.args[1] \notin DOMAIN data) =>
       /\ data' = data
       /\ expiryQueue' = expiryQueue
       /\ items' = items
       /\ cleanupTick' = cleanupTick
       /\ reaperTimer' = reaperTimer
       /\ oldTimer' = oldTimer
       /\ fault' = fault]_vars

\* An Expire of a key not in the map, with another key stored and the
\* goroutine waiting on the armed timer.
C14_Witness ==
  /\ ret.op = "Expire"
  /\ ret.args[1] \notin DOMAIN data
  /\ data # <<>>
  /\ reaperPc = "wait"
  /\ reaperTimer = "current"
  /\ cleanupTick.state = "armed"

\* C15: the first Close returns without a panic, closes stopChan and
\* leaves the map and the heap empty whatever they held, so every key is
\* absent for GetVal when it returns.
C15_FirstCloseEmpties ==
  [][(~stopClosed /\ ret'.op = "Close") =>
       /\ stopClosed'
       /\ fault' = "none"
       /\ mutex' = Unlocked
       /\ data' = <<>>
       /\ expiryQueue' = <<>>
       /\ \A k \in Keys : GetVal(k)' = NilVal]_vars

\* A first Close that found two keys stored.
C15_Witness ==
  /\ ret.op = "Close"
  /\ ret.val = NumKeys
  /\ stopClosed
  /\ fault = "none"
  /\ data = <<>>
  /\ expiryQueue = <<>>

\* C16: after Close no call stores or returns data as if the cache were
\* open: a SetVal after Close does not store an entry that a later GetVal
\* returns.
C16_ClosedStoresNothing ==
  stopClosed => \A k \in Keys : GetVal(k) = NilVal

\* C17: a Close of a closed cache panics on the closed stopChan and does not
\* return; the deferred Unlock has released the mutex.
C17_SecondCloseFaults ==
  [][(stopClosed /\ CloseRecorded) =>
       /\ fault' = "close of closed channel"
       /\ ret'.op # "Close"
       /\ mutex' = Unlocked
       /\ data' = data
       /\ expiryQueue' = expiryQueue]_vars

\* The process after the panic of a second Close.
C17_Witness ==
  /\ fault = "close of closed channel"
  /\ stopClosed
  /\ mutex = Unlocked
  /\ ret.op # "Close"

\* C18: on an open cache no call raises an error or a panic, whatever the
\* key, the value, the duration and the interleaving with the goroutine.
C18_NoFaultWhileOpen ==
  ~stopClosed => fault = "none"

\* C19: while the goroutine is blocked in its select, the timer whose
\* channel it receives from is m.cleanupTick, the timer armed last, so that
\* it wakes at the instant the last resetCleanupTimer asked for.
C19_WaitsOnLatestTimer ==
  reaperPc = "wait" =>
    /\ reaperTimer = "current"
    /\ WakeTime(AwaitedTimer) = WakeTime(cleanupTick)

\* C20: on an open cache the armed timer m.cleanupTick is the one
\* resetCleanupTimer computes for the heap as it is: with a non-empty heap
\* it fires at the expiration of the root (at once when that has passed),
\* with an empty heap it is an idle timer, armed for IdleTimeout at some
\* instant up to now.  (Between a tick and the cleanup that follows it the
\* timer has fired and the cleanup re-arms it.)
C20_TimerMatchesHeap ==
  (~stopClosed /\ cleanupTick.state = "armed") =>
    IF expiryQueue = <<>>
    THEN /\ IdleTimeout <= cleanupTick.deadline
         /\ cleanupTick.deadline <= now + IdleTimeout
    ELSE LET nextExpiry == items[expiryQueue[1]].expiration
         IN  WakeTime(cleanupTick) = IF nextExpiry < now THEN now ELSE nextExpiry

\* C21: a cleanupExpired that runs at time now leaves in the map and in the
\* heap exactly the entries whose expiration is after now, each with its
\* value and expiration, and leaves m.cleanupTick armed for the heap it
\* leaves: for the soonest expiration left, or for IdleTimeout.
C21_ReapRemovesDueOnly ==
  [][ReaperCleanupRecorded =>
       /\ DOMAIN data' = {k \in DOMAIN data : items[data[k]].expiration > now}
       /\ \A k \in DOMAIN data' :
            /\ items'[data'[k]].value = items[data[k]].value
            /\ items'[data'[k]].expiration = items[data[k]].expiration
       /\ Range(expiryQueue') =
            {x \in Range(expiryQueue) : items[x].expiration > now}
       /\ Len(expiryQueue') = Cardinality(Range(expiryQueue'))
       /\ cleanupTick'.state = "armed"
       /\ IF expiryQueue' = <<>>
          THEN cleanupTick'.deadline = now + IdleTimeout
          ELSE /\ \E k \in DOMAIN data' :
                    cleanupTick'.deadline = items'[data'[k]].expiration
               /\ \A k \in DOMAIN data' :
                    cleanupTick'.deadline <= items'[data'[k]].expiration]_vars

\* A cleanupExpired has popped an item and left another.
C21_Witness ==
  /\ ret.op = "cleanupExpired"
  /\ ret.val > 0
  /\ expiryQueue # <<>>
  /\ ~stopClosed

\* Goroutine g is between Lock and Unlock, or between RLock and RUnlock.
InExclusive(g) == calls[g].op \in WriteOps /\ calls[g].pc # "lock"
InShared(g) == calls[g].op \in ReadOps /\ calls[g].pc # "lock"

\* C22: at most one of SetVal, Del, Expire, cleanupExpired and Close is
\* between Lock and Unlock, none is while a GetVal, Exists or GetAll is
\* between RLock and RUnlock, and what a read finds is a map and a heap
\* that hold the same items, in heap order, each item at its index.
C22_ReadsSeeWholeWrites ==
  /\ \A g, h \in Goroutines : (InExclusive(g) /\ InExclusive(h)) => g = h
  /\ \A g, h \in Goroutines : ~(InExclusive(g) /\ InShared(h))
  /\ (\E g \in Goroutines : InShared(g)) =>
       /\ C4_Lockstep
       /\ C5_HeapOrder
       /\ \A i \in 1..Len(expiryQueue) : items[expiryQueue[i]].index = i - 1

\* Two reads between RLock and RUnlock at once, of a map with both keys,
\* while cleanupExpired waits for the mutex.
C22_Witness ==
  /\ InShared(1)
  /\ InShared(2)
  /\ Cardinality(DOMAIN data) = NumKeys
  /\ reaperPc = "cleanup"
  /\ calls[0] = NoCall

\* C23: the goroutine reads m.cleanupTick, to receive from its channel when
\* it enters the select or to stop it after the receive from stopChan, only
\* when no SetVal, Del or Expire is between Lock and Unlock, where
\* resetCleanupTimer stops and replaces the timer.
C23_TimerReadUnderMutex ==
  [][(ReaperSelect \/ ReaperStop) =>
       \A g \in Callers :
          ~(InExclusive(g) /\ calls[g].op \in {"SetVal", "Del", "Expire"})]_vars

\* C24: once Close has closed stopChan the goroutine runs no
\* cleanupExpired: not when the timer has fired as well, and not when the
\* goroutine had received from the timer before Close.
C24_NoCleanupAfterClose ==
  [][stopClosed => ~ReaperCleanup]_vars

\* C25: after Close the goroutine stops the timer m.cleanupTick points to
\* and returns, wherever it was when stopChan was closed (unless a second
\* Close panics first), and once it has returned it takes no further step.
C25_StopTerminates ==
  /\ stopClosed ~> (reaperPc = "done" \/ ~Running)
  /\ [][ReaperStop => cleanupTick'.state = "stopped"]_vars
  /\ [][reaperPc = "done" => reaperPc' = "done" /\ ~Reaper]_vars

\* The goroutine has returned after a Close that found it between the
\* receive from the timer and cleanupExpired, or waiting: the cache had an
\* entry and the clock had advanced.
C25_Witness ==
  /\ reaperPc = "done"
  /\ stopClosed
  /\ Running
  /\ cleanupTick.state = "stopped"
  /\ now > 0

\* C26: an entry that a step stores, or whose expiration a step changes,
\* has an expiration that is not before the instant of that step: no
\* SetVal or Expire, with any duration, leaves an entry that had expired
\* before it was written.
C26_NoNegativeLifetime ==
  [][\A k \in DOMAIN data' :
        (\/ k \notin DOMAIN data
         \/ items'[data'[k]].expiration # items[data[k]].expiration)
          => items'[data'[k]].expiration >= now']_vars

\* C27: a cleanupExpired changes no result of a read: GetVal of every key,
\* Exists of every key and GetAll return after it what they returned before
\* it at the same instant, the instant of an entry's expiration included.
C27_CleanupInvisible ==
  [][ReaperCleanup =>
       /\ \A k \in Keys : GetVal(k)' = GetVal(k)
       /\ \A k \in Keys : ExistsCount(<<k>>)' = ExistsCount(<<k>>)
       /\ GetAll' = GetAll]_vars

\* C28: on an open cache with a non-empty heap, the timer m.cleanupTick
\* points to is not set for an instant after the expiration of the root,
\* unless for an instant that is not after now: it fires when the root
\* expires, or before.
C28_TimerNotLate ==
  (~stopClosed /\ expiryQueue # <<>> /\ cleanupTick.state # "stopped") =>
    \/ cleanupTick.deadline <= items[expiryQueue[1]].expiration
    \/ cleanupTick.deadline <= now

\* After a SetVal that replaced the soonest entry by a later one: the timer
\* is armed for an instant to come, before the expiration of the root.
C28_Witness ==
  /\ ~stopClosed
  /\ expiryQueue # <<>>
  /\ cleanupTick.state = "armed"
  /\ cleanupTick.deadline > now
  /\ cleanupTick.deadline < items[expiryQueue[1]].expiration

\* Every item of heap h carries its position in its index field.
IndexedHeap(h) == \A i \in 1..HLen(h) : h.it[h.q[i]].index = i - 1

\* C29: every item of the heap carries its position in its index field, so
\* the map's item of a key is the heap's element at that index; and
\* heap.Remove at any position, like heap.Pop, takes out exactly the item
\* at that position, leaves it with index -1 and leaves every other item
\* with its position as index.
C29_IndexIsPosition ==
  LET h == Heap(expiryQueue, items)
  IN  /\ IndexedHeap(h)
      /\ \A k \in DOMAIN data :
            /\ ValidIndex(h, items[data[k]].index)
            /\ expiryQueue[items[data[k]].index + 1] = data[k]
      /\ \A i \in 0..(HLen(h) - 1) :
            LET r == HeapRemove(h, i)
            IN  /\ r.it[h.q[i + 1]].index = 0 - 1
                /\ Range(r.q) = Range(h.q) \ {h.q[i + 1]}
                /\ HLen(r) = HLen(h) - 1
                /\ IndexedHeap(r)
      /\ HLen(h) > 0 =>
            LET p == HeapPop(h)
            IN  /\ p.it[h.q[1]].index = 0 - 1
                /\ Range(p.q) = Range(h.q) \ {h.q[1]}
                /\ IndexedHeap(p)

\* A full heap whose array is not in the order of the keys: items have
\* been swapped.
C29_Witness ==
  /\ Len(expiryQueue) = NumHeapKeys
  /\ \E i \in 1..(NumHeapKeys - 1) :
        items[expiryQueue[i]].key > items[expiryQueue[i + 1]].key
  /\ \E i \in 1..NumHeapKeys : items[expiryQueue[i]].expiration = 1
  /\ items[expiryQueue[1]].expiration = 0

\* C30: one goroutine runs startCleanup from NewMemoryHelper on for as long
\* as the cache is open; no step of a caller or of the goroutine starts
\* another; after Close the goroutine returns (unless a second Close
\* panics first) and from then on none runs.
C30_OneReaper ==
  /\ [](~stopClosed => ReaperTasks = 1)
  /\ [][ReaperTasks' <= ReaperTasks]_vars
  /\ stopClosed ~> (ReaperTasks = 0 \/ ~Running)

\* The goroutine has returned, and a SetVal after it has stored an entry
\* whose expiration has passed: nothing has started another goroutine.
C30_Witness ==
  /\ ReaperTasks = 0
  /\ stopClosed
  /\ Running
  /\ \E k \in DOMAIN data : items[data[k]].expiration < now
  /\ cleanupTick.state = "armed"
=============================================================================
